---- MODULE Spec2Model ----
(***************************************************************************)
(* Model of the five-in-a-row core of src/src/ui/games/gomoku.py           *)
(* (class GameGomokuDialog): board, placement, win detection, placement    *)
(* scoring, candidate generation, static evaluation, alpha-beta search and *)
(* the event handlers that drive a game; and of the hover and drag state   *)
(* the window takes from src/src/ui/games/mixins.py (HoverHideMixin,       *)
(* DraggableMixin).                                                        *)
(*                                                                         *)
(* Numbers.  The program computes scores in double precision.  Every score *)
(* it produces is a multiple of 1/40 (0.5 steps from the centre bias, the  *)
(* factors 1.2 and 1.05), so a score is modelled exactly as an integer     *)
(* count of a fixed unit, held in three limbs <<h, m, l>> of base NB       *)
(* (value = h*NB*NB + m*NB + l, 0 <= m,l < NB) because 1e18 does not fit   *)
(* TLC's 32-bit integers.  Units: _score_if_place returns halves (1/2),    *)
(* the ranking key of a candidate is in 1/20, _evaluate_board and          *)
(* _alpha_beta are in 1/40.  Rounding of doubles is not modelled.          *)
(*                                                                         *)
(* Iteration order of the Python set `cand` in _ai_generate_candidates is  *)
(* an implementation detail of CPython; the stable sort keeps it among     *)
(* candidates of equal key.  It is modelled by the variable set_order,     *)
(* chosen once among the orders of SetOrders.                              *)
(***************************************************************************)
EXTENDS Integers, Sequences, FiniteSets, TLC

VARIABLES
    rows,             \* self.rows
    cols,             \* self.cols
    board,            \* self.board[r][c] in {0, 1, 2}
    current_player,   \* self.current_player
    ai_enabled,       \* self.ai_enabled
    ai_player,        \* self.ai_player
    ai_depth,         \* self.ai_depth
    ai_branch_limit,  \* self.ai_branch_limit
    win_line,         \* self._win_line
    game_over,        \* self._game_over
    cursor_r,         \* self._cursor_r
    cursor_c,         \* self._cursor_c
    pending,          \* number of QTimer.singleShot(1, self._ai_move) callbacks not yet run
    set_order,        \* iteration order of the candidate set (see above)
    last,             \* what the last step observed: the cells an AI callback filled, or the
                      \* arguments and result of a direct call of a function; None otherwise
    hover_hidden,       \* self._hover_hidden
    hover_delay_active, \* self._hover_show_delay_timer.isActive()
    hover_delay_ms,     \* self._hover_delay_ms
    edge_near_ticks,    \* self._edge_near_ticks
    dragging,           \* self._dragging
    opacity,            \* self.windowOpacity(), in percent
    mouse               \* where the pointer is: in the window, near its edge, or away

vars == <<rows, cols, board, current_player, ai_enabled, ai_player, ai_depth,
          ai_branch_limit, win_line, game_over, cursor_r, cursor_c, pending,
          set_order, last, hover_hidden, hover_delay_active, hover_delay_ms,
          edge_near_ticks, dragging, opacity, mouse>>

config == <<rows, cols, ai_enabled, ai_player, ai_depth, ai_branch_limit, set_order>>

\* the hover and drag state of the window, and the pointer
hover == <<hover_hidden, hover_delay_active, hover_delay_ms, edge_near_ticks, dragging,
           opacity, mouse>>

None == <<>>

\* the value of last after a step that records nothing
Idle == [op |-> "none"]

(***************************************************************************)
(* Bounds of the model.                                                    *)
(***************************************************************************)
\* length of the one-row and one-column boards
StripLen == 10

\* side of the square board
SquareDim == 2

\* _ai_move callbacks scheduled and not yet run
MaxPending == 2

(***************************************************************************)
(* Fixed-point numbers in three limbs.                                     *)
(***************************************************************************)
NB == 10 ^ 7

NumOfInt(n) == <<(n \div NB) \div NB, (n \div NB) % NB, n % NB>>

NNorm(h, m, l) ==
    LET m1 == m + (l \div NB)
    IN  <<h + (m1 \div NB), m1 % NB, l % NB>>

NAdd(a, b) == NNorm(a[1] + b[1], a[2] + b[2], a[3] + b[3])

NNeg(a) == NNorm(-a[1], -a[2], -a[3])

NSub(a, b) == NNorm(a[1] - b[1], a[2] - b[2], a[3] - b[3])

\* a * k for a small integer k >= 0 (k * NB fits 32 bits)
NMul(a, k) == NNorm(a[1] * k, a[2] * k, a[3] * k)

NLess(a, b) ==
    \/ a[1] < b[1]
    \/ a[1] = b[1] /\ a[2] < b[2]
    \/ a[1] = b[1] /\ a[2] = b[2] /\ a[3] < b[3]

NLeq(a, b) == ~NLess(b, a)

NMax(a, b) == IF NLess(a, b) THEN b ELSE a

NMin(a, b) == IF NLess(b, a) THEN b ELSE a

NZero == <<0, 0, 0>>

(***************************************************************************)
(* The board.  self.board is a list of rows lists of cols cells; Python    *)
(* accepts an index i of a list of length n when -n <= i < n and reads a   *)
(* negative one from the end, and raises IndexError otherwise.             *)
(*                                                                         *)
(* Where the program binds a local that is read several times, the model   *)
(* passes it as a parameter of a helper operator (named after what the     *)
(* local holds); the helper's source is the statements that read it.       *)
(***************************************************************************)
PyIndexOk(i, n) == -n <= i /\ i < n

PyIdx(i, n) == IF i < 0 THEN i + n ELSE i

\* self.board[r][c] raises no IndexError
CellOk(r, c) == PyIndexOk(r, rows) /\ PyIndexOk(c, cols)

\* self.board[r][c]
Get(b, r, c) == b[PyIdx(r, rows)][PyIdx(c, cols)]

\* self.board[r][c] = v
Put(b, r, c, v) == [b EXCEPT ![PyIdx(r, rows)][PyIdx(c, cols)] = v]

\* 0 <= rr < self.rows and 0 <= cc < self.cols
InRange(rr, cc) == 0 <= rr /\ rr < rows /\ 0 <= cc /\ cc < cols

Cells == (0 .. rows - 1) \X (0 .. cols - 1)

EmptyBoard == [r \in 0 .. rows - 1 |-> [c \in 0 .. cols - 1 |-> 0]]

Other(p) == IF p = 2 THEN 1 ELSE 2

Abs(x) == IF x < 0 THEN -x ELSE x

Max(a, b) == IF a < b THEN b ELSE a

\* a function with domain 1 .. n as a sequence, its elements computed once
Tup(f) == f \o <<>>

Reverse(s) == Tup([i \in 1 .. Len(s) |-> s[Len(s) + 1 - i]])

dirs == <<<<1, 0>>, <<0, 1>>, <<1, 1>>, <<1, -1>>>>

(***************************************************************************)
(* Win detection.                                                          *)
(***************************************************************************)
RECURSIVE Walk(_, _, _, _, _, _)
\* the cells appended by `while 0 <= rr < rows and 0 <= cc < cols and board[rr][cc] == color`
Walk(b, rr, cc, dr, dc, color) ==
    IF InRange(rr, cc) /\ b[rr][cc] = color
    THEN <<<<rr, cc>>>> \o Walk(b, rr + dr, cc + dc, dr, dc, color)
    ELSE <<>>

\* line = left (reversed) + [(r, c)] + the cells forward, for the colour at (r, c)
CollectFrom(b, r, c, dr, dc, color) ==
    Reverse(Walk(b, r - dr, c - dc, -dr, -dc, color))
    \o <<<<r, c>>>> \o Walk(b, r + dr, c + dc, dr, dc, color)

_collect_line_positions(b, r, c, dr, dc) ==
    IF ~CellOk(r, c) THEN <<>>                       \* IndexError: except -> []
    ELSE IF Get(b, r, c) = 0 THEN <<>>
    ELSE CollectFrom(b, r, c, dr, dc, Get(b, r, c))

RECURSIVE FirstWinLine(_, _, _, _)
RECURSIVE PickLine(_, _, _, _, _)
\* the variant of FirstWinLine that looks at (0, 1) before (1, 0)
FirstWinLine_horizontal_first(b, r, c, i) ==
    IF i > Len(dirs) THEN <<>>
    ELSE PickLine(b, r, c, i,
             _collect_line_positions(b, r, c, dirs[IF i <= 2 THEN 3 - i ELSE i][1],
                                     dirs[IF i <= 2 THEN 3 - i ELSE i][2]))

\* the line of the first direction, from dirs[i] on, with len(line) >= 5; <<>> if none
FirstWinLine(b, r, c, i) ==
    IF i > Len(dirs) THEN <<>>
    ELSE PickLine(b, r, c, i, _collect_line_positions(b, r, c, dirs[i][1], dirs[i][2]))

\* the variant of PickLine that takes a line of exactly five
PickLine_exactly_five(b, r, c, i, line) ==
    IF Len(line) = 5 THEN line ELSE FirstWinLine(b, r, c, i + 1)

PickLine(b, r, c, i, line) ==
    IF Len(line) >= 5 THEN line ELSE FirstWinLine(b, r, c, i + 1)

\* the value _check_win_at returns and self._win_line afterwards
WinResult(wl, line) ==
    IF line # <<>> THEN [res |-> TRUE, win_line |-> line]
    ELSE [res |-> FALSE, win_line |-> wl]

\* _check_win_at(r, c) on board b with self._win_line = wl
_check_win_at(b, wl, r, c) ==
    IF ~CellOk(r, c) THEN [res |-> FALSE, win_line |-> wl]       \* IndexError: except -> False
    ELSE IF Get(b, r, c) = 0 THEN [res |-> FALSE, win_line |-> wl]
    ELSE WinResult(wl, FirstWinLine(b, r, c, 1))

\* the variant of _is_draw that looks at the first row only
_is_draw_first_row(b) == \A c \in 0 .. cols - 1 : b[0][c] # 0

\* _is_draw(): no cell holds 0
_is_draw(b) == \A r \in 0 .. rows - 1 : \A c \in 0 .. cols - 1 : b[r][c] # 0

(***************************************************************************)
(* Placement scoring.                                                      *)
(***************************************************************************)
RECURSIVE RunLen(_, _, _, _, _, _)
\* cnt of the loop `while in range and board[rr][cc] == player: cnt += 1`
RunLen(b, rr, cc, dr, dc, player) ==
    IF InRange(rr, cc) /\ b[rr][cc] = player
    THEN 1 + RunLen(b, rr + dr, cc + dc, dr, dc, player)
    ELSE 0

\* (cnt, open_side): the cell after the run is in range and empty
Contig(b, r, c, dr, dc, cnt) ==
    <<cnt, InRange(r + (cnt + 1) * dr, c + (cnt + 1) * dc)
           /\ b[r + (cnt + 1) * dr][c + (cnt + 1) * dc] = 0>>

\* _contiguous(r, c, dr, dc, player) = (cnt, open_side)
_contiguous(b, r, c, dr, dc, player) ==
    Contig(b, r, c, dr, dc, RunLen(b, r + dr, c + dc, dr, dc, player))

\* count and open_ends from the two sides of one direction
Shape(left, right) ==
    [count     |-> 1 + left[1] + right[1],
     open_ends |-> (IF left[2] THEN 1 ELSE 0) + (IF right[2] THEN 1 ELSE 0)]

DirShape(b, player, r, c, d) ==
    Shape(_contiguous(b, r, c, -d[1], -d[2], player), _contiguous(b, r, c, d[1], d[2], player))

\* the variant of DirScore that adds 160 for a count of 2 whatever the open ends
DirScore_two_without_open_bonus(count, open_ends) ==
    IF count = 4 THEN (IF open_ends = 2 THEN 2000000 ELSE 200000)
    ELSE IF count = 3 THEN (IF open_ends = 2 THEN 40000 ELSE 6000)
    ELSE IF count = 2 THEN 160
    ELSE (IF open_ends >= 1 THEN 30 ELSE 6)

\* what one direction adds to total
DirScore(count, open_ends) ==
    IF count = 4 THEN (IF open_ends = 2 THEN 2000000 ELSE 200000)
    ELSE IF count = 3 THEN (IF open_ends = 2 THEN 40000 ELSE 6000)
    ELSE IF count = 2 THEN (IF open_ends = 2 THEN 600 ELSE 160)
    ELSE (IF open_ends >= 1 THEN 30 ELSE 6)

\* -1e18, in halves
OccupiedScore == <<-20000, 0, 0>>

\* 1e9, in halves
WinPlaceScore == <<0, 200, 0>>

\* the variant of PlaceScore without the return of 1e9 for a count of five or more
PlaceScore_without_win_return(r, c, s1, s2, s3, s4) ==
    NumOfInt(2 * (DirScore(s1.count, s1.open_ends) + DirScore(s2.count, s2.open_ends)
                  + DirScore(s3.count, s3.open_ends) + DirScore(s4.count, s4.open_ends))
             - (Abs(r - rows \div 2) + Abs(c - cols \div 2)))

\* the score of an empty cell from the shapes of its four directions, in halves
PlaceScore(r, c, s1, s2, s3, s4) ==
    IF s1.count >= 5 \/ s2.count >= 5 \/ s3.count >= 5 \/ s4.count >= 5
    THEN WinPlaceScore
    ELSE NumOfInt(2 * (DirScore(s1.count, s1.open_ends) + DirScore(s2.count, s2.open_ends)
                       + DirScore(s3.count, s3.open_ends) + DirScore(s4.count, s4.open_ends))
                  - (Abs(r - rows \div 2) + Abs(c - cols \div 2)))

\* _score_if_place(player, r, c), in halves
_score_if_place(b, player, r, c) ==
    IF ~CellOk(r, c) THEN NZero                      \* IndexError: except -> 0.0
    ELSE IF Get(b, r, c) # 0 THEN OccupiedScore
    ELSE PlaceScore(r, c, DirShape(b, player, r, c, dirs[1]), DirShape(b, player, r, c, dirs[2]),
                    DirShape(b, player, r, c, dirs[3]), DirShape(b, player, r, c, dirs[4]))

(***************************************************************************)
(* Candidate generation.                                                   *)
(***************************************************************************)
\* the cells row by row: (0, 0), (0, 1), ..., (rows-1, cols-1)
RowMajor == Tup([i \in 1 .. rows * cols |-> <<(i - 1) \div cols, (i - 1) % cols>>])

SetOrders == {"ascending", "descending"}

Oriented(asc) == IF set_order = "ascending" THEN asc ELSE Reverse(asc)

\* the cells of the set S in the order the program iterates over it
SetIteration(S) == Oriented(SelectSeq(RowMajor, LAMBDA x : x \in S))

\* list.sort(key=..., reverse=True) of items <<value, key>>: stable, by key descending.
\* An item goes after the items of greater key and the earlier items of equal key.
SortDesc(items) ==
    LET pos == Tup([i \in 1 .. Len(items) |->
                   1 + Cardinality({j \in 1 .. Len(items) :
                         \/ NLess(items[i][2], items[j][2])
                         \/ j < i /\ items[j][2] = items[i][2]})])
    IN  Tup([p \in 1 .. Len(items) |-> items[CHOOSE i \in 1 .. Len(items) : pos[i] = p]])

\* seq[:n]
Take(seq, n) ==
    IF n >= 0 THEN SubSeq(seq, 1, IF n < Len(seq) THEN n ELSE Len(seq))
    ELSE SubSeq(seq, 1, IF Len(seq) + n > 0 THEN Len(seq) + n ELSE 0)

\* the variant of RankKey that ranks by the score of the opponent alone
RankKey_of_opponent_only(b, r, c) ==
    NMul(_score_if_place(b, Other(ai_player), r, c), 10)

\* the ranking key s_ai * 1.2 + s_op * 1.0 of a candidate, in 1/20
RankKey(b, r, c) ==
    NAdd(NMul(_score_if_place(b, ai_player, r, c), 12),
         NMul(_score_if_place(b, Other(ai_player), r, c), 10))

\* the variant of Near that does not ask the cell to be empty
Near_any_cell(b, s) ==
    {x \in ((s[1] - 2) .. (s[1] + 2)) \X ((s[2] - 2) .. (s[2] + 2)) : InRange(x[1], x[2])}

\* the empty cells with |dr| <= 2 and |dc| <= 2 from the stone s
Near(b, s) ==
    {x \in ((s[1] - 2) .. (s[1] + 2)) \X ((s[2] - 2) .. (s[2] + 2)) :
        InRange(x[1], x[2]) /\ b[x[1]][x[2]] = 0}

\* scored: ((r, c), key) for the candidates in iteration order
Scored(b, order) ==
    Tup([i \in 1 .. Len(order) |-> <<order[i], RankKey(b, order[i][1], order[i][2])>>])

\* [xy for (xy, _) in scored]
Firsts(scored) == Tup([i \in 1 .. Len(scored) |-> scored[i][1]])

\* the variant of Generate that returns the whole sorted list
Generate_without_cut(b, stones) ==
    IF stones = {} THEN <<<<rows \div 2, cols \div 2>>>>
    ELSE Firsts(SortDesc(Scored(b, SetIteration(UNION {Near(b, s) : s \in stones}))))

\* the list returned for the set stones of occupied cells
Generate(b, stones) ==
    IF stones = {} THEN <<<<rows \div 2, cols \div 2>>>>
    ELSE Firsts(Take(SortDesc(Scored(b, SetIteration(UNION {Near(b, s) : s \in stones}))),
                     Max(1, ai_branch_limit)))

_ai_generate_candidates(b) == Generate(b, {x \in Cells : b[x[1]][x[2]] # 0})

(***************************************************************************)
(* Static evaluation.                                                      *)
(***************************************************************************)
_ai_topk_eval == 6

\* sum(seq), in the unit of its elements
RECURSIVE Sum(_, _)
Sum(seq, i) == IF i > Len(seq) THEN NZero ELSE NAdd(seq[i][1], Sum(seq, i + 1))

Twice(v) == <<v, v>>

\* the variant of TopSum that sums the scores of all candidates
TopSum_of_all(b, player, cand) ==
    Sum(SortDesc(Tup([i \in 1 .. Len(cand) |->
                         Twice(_score_if_place(b, player, cand[i][1], cand[i][2]))])), 1)

\* sum(sorted(scores, reverse=True)[:k]) of the scores of player at the cells of cand, in halves
TopSum(b, player, cand) ==
    Sum(Take(SortDesc(Tup([i \in 1 .. Len(cand) |->
                              Twice(_score_if_place(b, player, cand[i][1], cand[i][2]))])),
             _ai_topk_eval), 1)

\* the variant of EvalOver that leaves the opponent's sum out
EvalOver_own_side_only(b, player, cand) ==
    IF cand = <<>> THEN NZero ELSE NMul(TopSum(b, player, cand), 20)

\* ai_sum * 1.0 - op_sum * 1.05 over the candidate list, in 1/40
EvalOver(b, player, cand) ==
    IF cand = <<>> THEN NZero
    ELSE NSub(NMul(TopSum(b, player, cand), 20), NMul(TopSum(b, Other(player), cand), 21))

\* _evaluate_board(player), in 1/40
_evaluate_board(b, player) == EvalOver(b, player, _ai_generate_candidates(b))

(***************************************************************************)
(* Alpha-beta search.  The search writes trial stones into self.board and  *)
(* _check_win_at writes self._win_line, so both are threaded through: a    *)
(* call takes the board and win line it finds and returns the ones it      *)
(* leaves.  The field paths of a result is not program state: it records   *)
(* which exits the call and the calls below it took.                       *)
(***************************************************************************)
\* 1e18, in 1/40
Inf == <<400000, 0, 0>>

\* the variant of WinScore that is 1e12 at every depth
WinScore_at_any_depth(depth) == <<0, 4000000, 0>>

\* 1e12 - (3 - depth) * 1e6, in 1/40
WinScore(depth) == NSub(<<0, 4000000, 0>>, NumOfInt((3 - depth) * 40000000))

Result(score, move, b, wl, paths) ==
    [score |-> score, move |-> move, board |-> b, win_line |-> wl, paths |-> paths]

RECURSIVE _alpha_beta(_, _, _, _, _, _)
RECURSIVE SearchLoop(_, _, _, _, _, _, _, _, _, _, _)
RECURSIVE TrialWon(_, _, _, _, _, _, _, _, _, _, _, _)
RECURSIVE TrialScored(_, _, _, _, _, _, _, _, _, _)
RECURSIVE TrialUndo(_, _, _, _, _, _, _, _, _, _, _)

\* score > best_score (maximizing) or score < best_score (minimizing)
Better(to_move, score, best_score) ==
    IF to_move = ai_player THEN NLess(best_score, score) ELSE NLess(score, best_score)

\* the `for (r, c) in cand` loop of either branch, from cand[i] on:
\* self.board[r][c] = to_move; if self._check_win_at(r, c): ...
SearchLoop(cand, i, b, wl, depth, to_move, alpha, beta, best_score, best_move, paths) ==
    IF i > Len(cand)
    THEN Result(best_score, best_move, b, wl, paths \cup {"loop_end"})
    ELSE TrialWon(cand, i, Put(b, cand[i][1], cand[i][2], to_move), wl, depth, to_move,
                  alpha, beta, best_score, best_move, paths,
                  _check_win_at(Put(b, cand[i][1], cand[i][2], to_move), wl,
                                cand[i][1], cand[i][2]))

\* score = the win score of this depth, or the score of the recursive call
TrialWon(cand, i, b1, wl, depth, to_move, alpha, beta, best_score, best_move, paths, won) ==
    TrialScored(cand, i, depth, to_move, alpha, beta, best_score, best_move, paths,
        IF won.res
        THEN Result(IF to_move = ai_player THEN WinScore(depth) ELSE NNeg(WinScore(depth)),
                    None, b1, won.win_line, {"win"})
        ELSE _alpha_beta(b1, wl, depth - 1, Other(to_move), alpha, beta))

\* if score > best_score: best_score = score; best_move = (r, c)   (or <, minimizing)
TrialScored(cand, i, depth, to_move, alpha, beta, best_score, best_move, paths, sub) ==
    TrialUndo(cand, i, sub.board, sub.win_line, depth, to_move, alpha, beta,
              IF Better(to_move, sub.score, best_score) THEN sub.score ELSE best_score,
              IF Better(to_move, sub.score, best_score) THEN cand[i] ELSE best_move,
              paths \cup sub.paths)

\* the variant of NewAlpha that raises alpha at the minimizing nodes as well
NewAlpha_at_every_node(to_move, alpha, best_score) == NMax(alpha, best_score)

\* alpha = max(alpha, best_score)   (or beta = min(beta, best_score))
NewAlpha(to_move, alpha, best_score) ==
    IF to_move = ai_player THEN NMax(alpha, best_score) ELSE alpha

NewBeta(to_move, beta, best_score) ==
    IF to_move = ai_player THEN beta ELSE NMin(beta, best_score)

\* the variant of TrialUndo that breaks out of the loop without removing the trial stone
TrialUndo_break_before_undo(cand, i, b1, wl, depth, to_move, alpha, beta, best_score, best_move, paths) ==
    IF NLeq(NewBeta(to_move, beta, best_score), NewAlpha(to_move, alpha, best_score))
    THEN Result(best_score, best_move, b1, wl, paths \cup {"cutoff"})
    ELSE SearchLoop(cand, i + 1, Put(b1, cand[i][1], cand[i][2], 0), wl, depth, to_move,
                    NewAlpha(to_move, alpha, best_score), NewBeta(to_move, beta, best_score),
                    best_score, best_move, paths)

\* if beta <= alpha: self.board[r][c] = 0; break -- else self.board[r][c] = 0 and go on
TrialUndo(cand, i, b1, wl, depth, to_move, alpha, beta, best_score, best_move, paths) ==
    IF NLeq(NewBeta(to_move, beta, best_score), NewAlpha(to_move, alpha, best_score))
    THEN Result(best_score, best_move, Put(b1, cand[i][1], cand[i][2], 0), wl,
                paths \cup {"cutoff"})
    ELSE SearchLoop(cand, i + 1, Put(b1, cand[i][1], cand[i][2], 0), wl, depth, to_move,
                    NewAlpha(to_move, alpha, best_score), NewBeta(to_move, beta, best_score),
                    best_score, best_move, paths)

\* the search below a node whose candidate list is cand
SearchFrom(cand, b, wl, depth, to_move, alpha, beta) ==
    IF cand = <<>> THEN Result(NZero, None, b, wl, {"no_candidates"})
    ELSE SearchLoop(cand, 1, b, wl, depth, to_move, alpha, beta,
                    IF to_move = ai_player THEN NNeg(Inf) ELSE Inf, None, {})

\* _alpha_beta(depth, to_move, alpha, beta) = (score, move), in 1/40
_alpha_beta(b, wl, depth, to_move, alpha, beta) ==
    IF depth <= 0
    THEN Result(_evaluate_board(b, ai_player), None, b, wl, {"leaf"})
    ELSE SearchFrom(_ai_generate_candidates(b), b, wl, depth, to_move, alpha, beta)

(***************************************************************************)
(* Handlers.  A handler is a function of the mutable game state            *)
(*   g = [board, current_player, game_over, win_line, pending]             *)
(* and returns the state it leaves.  Dialogs and view refreshes change     *)
(* none of it.                                                             *)
(***************************************************************************)
Game == [board |-> board, current_player |-> current_player, game_over |-> game_over,
         win_line |-> win_line, pending |-> pending]

\* the variant of Judged that passes the turn after a win or a draw as well
Judged_always_passing(g, b1, won) ==
    [g EXCEPT !.board = b1,
              !.win_line = IF won.res THEN won.win_line ELSE @,
              !.game_over = won.res \/ _is_draw(b1),
              !.current_player = IF g.current_player = 1 THEN 2 ELSE 1]

\* after self.board[r][c] = self.current_player: win, draw, or the turn passes
Judged(g, b1, won) ==
    IF won.res
    THEN [g EXCEPT !.board = b1, !.win_line = won.win_line, !.game_over = TRUE]
    ELSE IF _is_draw(b1)
    THEN [g EXCEPT !.board = b1, !.game_over = TRUE]
    ELSE [g EXCEPT !.board = b1,
                   !.current_player = IF g.current_player = 1 THEN 2 ELSE 1,
                   \* QTimer.singleShot(1, self._ai_move)
                   !.pending = IF ai_enabled /\ (IF g.current_player = 1 THEN 2 ELSE 1) = ai_player
                               THEN @ + 1 ELSE @]

\* _place_current(r, c)
_place_current(g, r, c) ==
    IF g.game_over THEN g
    ELSE IF ~CellOk(r, c) THEN g                     \* IndexError: except -> pass
    ELSE IF Get(g.board, r, c) # 0 THEN g
    ELSE Judged(g, Put(g.board, r, c, g.current_player),
                _check_win_at(Put(g.board, r, c, g.current_player), g.win_line, r, c))

\* the variant of SearchDepth that searches a short candidate list to depth 3
SearchDepth_raised_to_three(cand) ==
    IF Len(cand) <= 8 THEN 3 ELSE ai_depth

\* the depth _ai_move searches to, given the candidate list
SearchDepth(cand) ==
    IF Len(cand) <= 8
    THEN (IF Max(2, ai_depth) < 3 THEN Max(2, ai_depth) ELSE 3)
    ELSE ai_depth

\* if move is None: move = cand[0]; self._place_current(move[0], move[1])
AiPlace(g, move) == _place_current(g, move[1], move[2])

\* the variant of AiPlay that places nothing when the search returns no move
AiPlay_without_fallback(g, cand, res) ==
    IF res.move = None THEN [g EXCEPT !.board = res.board, !.win_line = res.win_line]
    ELSE AiPlace([g EXCEPT !.board = res.board, !.win_line = res.win_line], res.move)

AiPlay(g, cand, res) ==
    AiPlace([g EXCEPT !.board = res.board, !.win_line = res.win_line],
            IF res.move = None THEN cand[1] ELSE res.move)

AiChoose(g, cand) ==
    IF cand = <<>> THEN _place_current(g, rows \div 2, cols \div 2)
    ELSE AiPlay(g, cand, _alpha_beta(g.board, g.win_line, SearchDepth(cand),
                                     ai_player, NNeg(Inf), Inf))

\* the variant of _ai_move that does not test whose turn it is
_ai_move_out_of_turn(g) ==
    IF g.game_over \/ ~ai_enabled THEN g
    ELSE AiChoose(g, _ai_generate_candidates(g.board))

\* _ai_move()
_ai_move(g) ==
    IF g.game_over \/ ~ai_enabled \/ g.current_player # ai_player THEN g
    ELSE AiChoose(g, _ai_generate_candidates(g.board))

\* the cells that are empty in b and hold a stone in b2
NewStones(b, b2) == {x \in Cells : b[x[1]][x[2]] = 0 /\ b2[x[1]][x[2]] # 0}

\* the game state becomes g
Becomes(g) ==
    /\ board' = g.board
    /\ current_player' = g.current_player
    /\ game_over' = g.game_over
    /\ win_line' = g.win_line
    /\ pending' = g.pending

(***************************************************************************)
(* Events of the window.                                                   *)
(***************************************************************************)
\* the variant of _on_cell_click without the check that it is the AI's turn
_on_cell_click_any_turn(r, c) ==
    /\ last' = Idle
    /\ UNCHANGED config
    /\ UNCHANGED hover
    /\ IF game_over \/ ~CellOk(r, c) \/ Get(board, r, c) # 0
       THEN UNCHANGED <<board, current_player, game_over, win_line, pending,
                        cursor_r, cursor_c>>
       ELSE /\ cursor_r' = r
            /\ cursor_c' = c
            /\ Becomes(_place_current(Game, r, c))

\* the variant of _on_cell_click that puts the stone on the cell without any test
_on_cell_click_untested(r, c) ==
    /\ last' = Idle
    /\ UNCHANGED config
    /\ UNCHANGED hover
    /\ cursor_r' = r
    /\ cursor_c' = c
    /\ Becomes(Judged(Game, Put(board, r, c, current_player),
                      _check_win_at(Put(board, r, c, current_player), win_line, r, c)))

\* _on_cell_click(r, c): a left click on the label of cell (r, c)
_on_cell_click(r, c) ==
    /\ last' = Idle
    /\ UNCHANGED config
    /\ UNCHANGED hover
    /\ IF \/ game_over
          \/ ~CellOk(r, c)                           \* IndexError: except -> pass
          \/ Get(board, r, c) # 0
          \/ ai_enabled /\ current_player = ai_player
       THEN UNCHANGED <<board, current_player, game_over, win_line, pending,
                        cursor_r, cursor_c>>
       ELSE /\ cursor_r' = r
            /\ cursor_c' = c
            /\ Becomes(_place_current(Game, r, c))

\* keyPressEvent: Left/A, Right/D, Up/W, Down/S
KeyArrow(dr, dc) ==
    /\ last' = Idle
    /\ cursor_r' = (IF cursor_r + dr < 0 THEN 0
                    ELSE IF cursor_r + dr > rows - 1 THEN rows - 1 ELSE cursor_r + dr)
    /\ cursor_c' = (IF cursor_c + dc < 0 THEN 0
                    ELSE IF cursor_c + dc > cols - 1 THEN cols - 1 ELSE cursor_c + dc)
    /\ UNCHANGED <<board, current_player, game_over, win_line, pending>>
    /\ UNCHANGED config
    /\ UNCHANGED hover

\* the variant of the Space key that does not test whose turn it is
KeySpace_on_any_turn ==
    /\ last' = Idle
    /\ UNCHANGED <<cursor_r, cursor_c>>
    /\ UNCHANGED config
    /\ UNCHANGED hover
    /\ IF ~game_over /\ board[cursor_r][cursor_c] = 0
       THEN Becomes(_place_current(Game, cursor_r, cursor_c))
       ELSE UNCHANGED <<board, current_player, game_over, win_line, pending>>

\* keyPressEvent: Space
KeySpace ==
    /\ last' = Idle
    /\ UNCHANGED <<cursor_r, cursor_c>>
    /\ UNCHANGED config
    /\ UNCHANGED hover
    /\ IF ~game_over /\ board[cursor_r][cursor_c] = 0
          /\ ~(ai_enabled /\ current_player = ai_player)
       THEN Becomes(_place_current(Game, cursor_r, cursor_c))
       ELSE UNCHANGED <<board, current_player, game_over, win_line, pending>>

\* the variant of new_game that leaves the recorded win line as it is
new_game_keeping_win_line ==
    /\ pending < MaxPending
    /\ last' = Idle
    /\ board' = EmptyBoard
    /\ current_player' = 1
    /\ game_over' = FALSE
    /\ cursor_r' = rows \div 2
    /\ cursor_c' = cols \div 2
    /\ UNCHANGED win_line
    /\ UNCHANGED pending
    /\ UNCHANGED config
    /\ UNCHANGED hover

\* the variant of new_game that leaves current_player as it is
new_game_keeping_player ==
    /\ pending < MaxPending
    /\ last' = Idle
    /\ board' = EmptyBoard
    /\ game_over' = FALSE
    /\ cursor_r' = rows \div 2
    /\ cursor_c' = cols \div 2
    /\ win_line' = <<>>
    /\ UNCHANGED current_player
    /\ UNCHANGED pending
    /\ UNCHANGED config
    /\ UNCHANGED hover

\* new_game(), called by keyPressEvent on R
new_game ==
    /\ pending < MaxPending
    /\ last' = Idle
    /\ board' = EmptyBoard
    /\ current_player' = 1
    /\ game_over' = FALSE
    /\ cursor_r' = rows \div 2
    /\ cursor_c' = cols \div 2
    /\ win_line' = <<>>
    /\ UNCHANGED pending
    /\ UNCHANGED config
    /\ UNCHANGED hover

\* a callback scheduled by QTimer.singleShot(1, self._ai_move) runs
AiTimer ==
    /\ pending > 0
    /\ Becomes(_ai_move([Game EXCEPT !.pending = @ - 1]))
    /\ last' = [op |-> "_ai_move", placed |-> NewStones(board, board')]
    /\ UNCHANGED <<cursor_r, cursor_c>>
    /\ UNCHANGED config
    /\ UNCHANGED hover

(***************************************************************************)
(* The game as the window runs it, on reduced boards.                      *)
(***************************************************************************)
\* the dimensions, the configuration and the state __init__ sets, the board apart
Configured(R, C, enabled, player, depth, limit, order) ==
    /\ rows = R
    /\ cols = C
    /\ current_player = 1
    /\ ai_enabled = enabled
    /\ ai_player = player
    /\ ai_depth = depth
    /\ ai_branch_limit = limit
    /\ win_line = <<>>
    /\ game_over = FALSE
    /\ cursor_r = R \div 2
    /\ cursor_c = C \div 2
    /\ pending = 0
    /\ set_order = order
    /\ last = Idle
    \* init_drag, init_hover
    /\ dragging = FALSE
    /\ hover_hidden = FALSE
    /\ hover_delay_active = FALSE
    /\ hover_delay_ms = 1500
    /\ edge_near_ticks = 0
    /\ opacity = 100
    /\ mouse = "away"

\* the state __init__ leaves
Constructed(R, C, enabled, player, depth, limit, order) ==
    /\ Configured(R, C, enabled, player, depth, limit, order)
    /\ board = EmptyBoard

\* The boards of the game are reduced: two humans play on a strip long enough for five in
\* a row with the other colour's stones beside it; a human and the AI play on a small
\* square, which fills up.  The AI plays White or Black, with either iteration order.
Init ==
    \/ Constructed(1, StripLen, FALSE, 2, 2, 8, "ascending")
    \/ \E player \in {1, 2} : \E order \in SetOrders :
           Constructed(SquareDim, SquareDim, TRUE, player, 2, 8, order)

Next ==
    \/ \E r \in 0 .. rows - 1 : \E c \in 0 .. cols - 1 : _on_cell_click(r, c)
    \/ \E d \in {<<0, -1>>, <<0, 1>>, <<-1, 0>>, <<1, 0>>} : KeyArrow(d[1], d[2])
    \/ KeySpace
    \/ new_game
    \/ AiTimer

Spec == Init /\ [][Next]_vars

(***************************************************************************)
(* Properties of the game.                                                 *)
(***************************************************************************)
Axes == {<<0, 1>>, <<1, 0>>, <<1, 1>>, <<1, -1>>}

\* five cells in a row from (r, c) along d hold stones of one colour
FiveFrom(b, r, c, d) ==
    /\ InRange(r, c)
    /\ b[r][c] # 0
    /\ \A k \in 1 .. 4 : /\ InRange(r + k * d[1], c + k * d[2])
                         /\ b[r + k * d[1]][c + k * d[2]] = b[r][c]

HasFive(b) == \E x \in Cells : \E d \in Axes : FiveFrom(b, x[1], x[2], d)

BoardFull(b) == \A x \in Cells : b[x[1]][x[2]] # 0

\* the AI is the side to move in a game that is not over
AiToMove == ai_enabled /\ ~game_over /\ current_player = ai_player

\* a step that adds exactly one stone and changes no other cell
StoneAdded ==
    /\ Cardinality(NewStones(board, board')) = 1
    /\ \A x \in Cells : board[x[1]][x[2]] # 0 => board'[x[1]][x[2]] = board[x[1]][x[2]]

\* C4: between events, the game is over exactly when the board holds five in a row of one
\* colour along some axis or has no empty cell.
C4_TerminalExactly == game_over <=> (HasFive(board) \/ BoardFull(board))

C4_WonGame == game_over /\ HasFive(board) /\ ~BoardFull(board)

\* C5: a step that places a stone and leaves the game ongoing passes the turn to the other
\* colour; a step that places a stone and ends the game, and a step that leaves the board
\* as it was (a rejected placement), leave current_player unchanged.
C5_Alternates ==
    [][/\ StoneAdded /\ ~game_over' => current_player' = Other(current_player)
       /\ StoneAdded /\ game_over' => current_player' = current_player
       /\ board' = board => current_player' = current_player]_vars

C5_TurnPassed == ~game_over /\ current_player = 2 /\ board # EmptyBoard

\* C6 as stated: once a human move has made the AI the side to move, the next event
\* processed is the AI's reply.
C6_ReplyBeforeAnyEvent == [][AiToMove /\ pending > 0 => pending' = pending - 1]_vars

\* C6: the reply waits for its timer, and R and the cursor keys are processed meanwhile;
\* but while the AI is the side to move the only steps that change the board are the
\* timer callback and new_game, so no human stone comes before the AI's.
C6_NoHumanStoneBeforeReply ==
    [][AiToMove /\ board' # board => pending' = pending - 1 \/ board' = EmptyBoard]_vars

C6_AiReplied == last.op = "_ai_move" /\ last.placed # {} /\ ~game_over

\* C7: whenever the AI is the side to move in a game that is not over, a callback that
\* makes its move is scheduled.  Only such a callback makes the AI move, so where none is
\* scheduled the game waits for the AI forever.
C7_AiMoveScheduled == AiToMove => pending > 0

(***************************************************************************)
(* Direct calls of _place_current, with any integers as coordinates.       *)
(***************************************************************************)
\* _place_current(r, c) called on the state of the window
CallPlace(r, c) ==
    /\ last' = [op |-> "_place_current", r |-> r, c |-> c, before |-> Game]
    /\ Becomes(_place_current(Game, r, c))
    /\ UNCHANGED <<cursor_r, cursor_c>>
    /\ UNCHANGED config
    /\ UNCHANGED hover

\* coordinates from beyond the board on either side
Coords == (0 - rows - 1) .. (rows + 1)

PlaceInit ==
    \E enabled \in BOOLEAN : Constructed(SquareDim, SquareDim, enabled, 2, 2, 8, "ascending")

PlaceNext == \E r \in Coords : \E c \in Coords : CallPlace(r, c)

PlaceSpec == PlaceInit /\ [][PlaceNext]_vars

\* C2: a call _place_current(r, c) with (r, c) outside the board, or on an occupied cell,
\* leaves the board, current_player, _game_over and _win_line as they were.
C2_IllegalRejected ==
    (/\ last.op = "_place_current"
     /\ \/ ~InRange(last.r, last.c)
        \/ last.before.board[last.r][last.c] # 0)
    => /\ board = last.before.board
       /\ current_player = last.before.current_player
       /\ game_over = last.before.game_over
       /\ win_line = last.before.win_line

(***************************************************************************)
(* Direct calls of _check_win_at on boards that hold one line of stones.   *)
(***************************************************************************)
WinDim == 6

\* the board with n cells from o along d in colour p, the w-th of them in the other colour
LineBoard(o, d, n, p, w) ==
    [r \in 0 .. rows - 1 |-> [c \in 0 .. cols - 1 |->
        IF \E k \in 0 .. n - 1 : r = o[1] + k * d[1] /\ c = o[2] + k * d[2]
        THEN (IF r = o[1] + w * d[1] /\ c = o[2] + w * d[2] THEN Other(p) ELSE p)
        ELSE 0]]

LineOrigins == {0, 1} \X {0, 1, WinDim - 2, WinDim - 1}

WinInit ==
    /\ Configured(WinDim, WinDim, TRUE, 2, 2, 8, "ascending")
    /\ \E o \in LineOrigins : \E d \in Axes : \E n \in 4 .. 6 : \E p \in {1, 2} :
           \E w \in 0 .. n : board = LineBoard(o, d, n, p, w)

\* _check_win_at(r, c) called on the state of the window
CallCheckWin(r, c) ==
    /\ last' = [op |-> "_check_win_at", r |-> r, c |-> c,
                res |-> _check_win_at(board, win_line, r, c).res]
    /\ win_line' = _check_win_at(board, win_line, r, c).win_line
    /\ UNCHANGED <<board, current_player, game_over, pending, cursor_r, cursor_c>>
    /\ UNCHANGED config
    /\ UNCHANGED hover

WinNext == \E r \in 0 .. rows - 1 : \E c \in 0 .. cols - 1 : CallCheckWin(r, c)

WinSpec == WinInit /\ [][WinNext]_vars

\* five consecutive cells along d, one of them (r, c), hold stones of the colour at (r, c)
FiveThrough(b, r, c, d) ==
    \E j \in 0 .. 4 :
        /\ FiveFrom(b, r - j * d[1], c - j * d[2], d)
        /\ b[r - j * d[1]][c - j * d[2]] = b[r][c]

\* C3: _check_win_at(r, c) returns True exactly when (r, c) holds a stone and, along one of
\* the four axes, the run of stones of its colour through (r, c) is at least five long.
C3_WinIffRunOfFive ==
    last.op = "_check_win_at"
    => (last.res <=> /\ board[last.r][last.c] # 0
                     /\ \E d \in Axes : FiveThrough(board, last.r, last.c, d))

C3_SixDetected == last.op = "_check_win_at" /\ last.res /\ Len(win_line) = 6

(***************************************************************************)
(* Direct calls of _ai_generate_candidates and _alpha_beta on a reduced    *)
(* board, for the AI as White.                                             *)
(***************************************************************************)
SearchDim == 5

MaxDepth == 2

\* cell by cell, the stone of b1 where it has one, else that of b2
Overlay(b1, b2) ==
    [r \in 0 .. rows - 1 |-> [c \in 0 .. cols - 1 |->
        IF b1[r][c] # 0 THEN b1[r][c] ELSE b2[r][c]]]

\* a full board without five in a row
Checkered == [r \in 0 .. rows - 1 |-> [c \in 0 .. cols - 1 |-> 1 + (((c \div 2) + r) % 2)]]

\* b without the stones on the cells of E
Without(b, E) ==
    [r \in 0 .. rows - 1 |-> [c \in 0 .. cols - 1 |-> IF <<r, c>> \in E THEN 0 ELSE b[r][c]]]

\* Positions: the empty board; a line of n Black stones and a line of n - 1 or n White
\* stones; and the full board with up to two stones taken off.
SearchBoards ==
    {EmptyBoard}
    \cup {Overlay(LineBoard(lb[1], lb[2], n, 1, n), LineBoard(lw[1], lw[2], m, 2, m)) :
            lb \in {<<<<2, 0>>, <<0, 1>>>>, <<<<2, 1>>, <<0, 1>>>>, <<<<0, 0>>, <<1, 1>>>>},
            lw \in {<<<<3, 0>>, <<0, 1>>>>, <<<<0, 4>>, <<1, 0>>>>},
            n \in 1 .. 4, m \in 0 .. 4}
    \cup {Without(Checkered, E) : E \in SUBSET {<<0, 0>>, <<2, 2>>, <<4, 3>>}}

SearchInit ==
    /\ \E order \in SetOrders : Configured(SearchDim, SearchDim, TRUE, 2, 2, 8, order)
    /\ board \in {b \in SearchBoards :
                    LET n == Cardinality({x \in Cells : b[x[1]][x[2]] = 1})
                        m == Cardinality({x \in Cells : b[x[1]][x[2]] = 2})
                    IN  n = m \/ n = m + 1}

\* _ai_generate_candidates() called on the state of the window
CallGenerate ==
    /\ last' = [op |-> "_ai_generate_candidates", cand |-> _ai_generate_candidates(board)]
    /\ UNCHANGED <<board, current_player, game_over, win_line, pending, cursor_r, cursor_c>>
    /\ UNCHANGED config
    /\ UNCHANGED hover

\* the window after a call of _alpha_beta that returned res
Searched(depth, to_move, alpha, beta, res) ==
    /\ board' = res.board
    /\ win_line' = res.win_line
    /\ last' = [op |-> "_alpha_beta", before |-> board, depth |-> depth, to_move |-> to_move,
                alpha |-> alpha, beta |-> beta, score |-> res.score, move |-> res.move,
                paths |-> res.paths]

\* _alpha_beta(depth, self.ai_player, alpha, beta) called on the state of the window
CallAlphaBeta(depth, alpha, beta) ==
    /\ last.op # "_alpha_beta"
    /\ Searched(depth, ai_player, alpha, beta,
                _alpha_beta(board, win_line, depth, ai_player, alpha, beta))
    /\ UNCHANGED <<current_player, game_over, pending, cursor_r, cursor_c>>
    /\ UNCHANGED config
    /\ UNCHANGED hover

\* the full window, and a narrow one around 0 (in 1/40)
Windows == {<<NNeg(Inf), Inf>>, <<NumOfInt(-40000), NumOfInt(40000)>>}

SearchNext ==
    \/ CallGenerate
    \/ \E depth \in 0 .. MaxDepth : \E w \in Windows : CallAlphaBeta(depth, w[1], w[2])

SearchSpec == SearchInit /\ [][SearchNext]_vars

\* C1: when _alpha_beta returns, every cell of the board holds what it held at the call.
C1_BoardRestored == last.op = "_alpha_beta" => board = last.before

C1_EveryLoopExit ==
    /\ last.op = "_alpha_beta"
    /\ {"leaf", "win", "loop_end", "cutoff"} \subseteq last.paths

\* C8: the cells _ai_generate_candidates returns are in range, empty and pairwise distinct,
\* and on a board without stones the list is the centre cell alone.
C8_CandidatesLegal ==
    last.op = "_ai_generate_candidates"
    => /\ \A i \in 1 .. Len(last.cand) :
              /\ InRange(last.cand[i][1], last.cand[i][2])
              /\ board[last.cand[i][1]][last.cand[i][2]] = 0
              /\ \A j \in 1 .. Len(last.cand) : last.cand[j] = last.cand[i] => j = i
       /\ board = EmptyBoard => last.cand = <<<<rows \div 2, cols \div 2>>>>

C8_ListCut ==
    /\ last.op = "_ai_generate_candidates"
    /\ Len(last.cand) = 8
    /\ Cardinality({x \in Cells : board[x[1]][x[2]] = 0}) > 8

\* the greatest and the least of a non-empty sequence of scores
RECURSIVE NMaxOf(_, _)
NMaxOf(seq, i) == IF i = Len(seq) THEN seq[i] ELSE NMax(seq[i], NMaxOf(seq, i + 1))

RECURSIVE NMinOf(_, _)
NMinOf(seq, i) == IF i = Len(seq) THEN seq[i] ELSE NMin(seq[i], NMinOf(seq, i + 1))

\* Exhaustive minimax without pruning: the same candidates, the same score for a move that
\* makes five, the same evaluation at depth 0.
RECURSIVE Minimax(_, _, _)
Minimax(b, depth, to_move) ==
    IF depth <= 0 THEN _evaluate_board(b, ai_player)
    ELSE LET cand == _ai_generate_candidates(b)
             Value(x) ==
                 LET b1 == Put(b, x[1], x[2], to_move)
                 IN  IF _check_win_at(b1, <<>>, x[1], x[2]).res
                     THEN (IF to_move = ai_player THEN WinScore(depth)
                           ELSE NNeg(WinScore(depth)))
                     ELSE Minimax(b1, depth - 1, Other(to_move))
             vals == Tup([i \in 1 .. Len(cand) |-> Value(cand[i])])
         IN  IF cand = <<>> THEN NZero
             ELSE IF to_move = ai_player THEN NMaxOf(vals, 1) ELSE NMinOf(vals, 1)

\* C9: at depth 2 with the full window, the score _alpha_beta returns at the root is the
\* score of exhaustive minimax on the same position.
C9_EqualsMinimax ==
    (last.op = "_alpha_beta" /\ last.depth = 2 /\ last.alpha = NNeg(Inf) /\ last.beta = Inf)
    => last.score = Minimax(last.before, 2, last.to_move)

C9_PrunedSearch ==
    /\ last.op = "_alpha_beta" /\ last.depth = 2 /\ last.alpha = NNeg(Inf) /\ last.beta = Inf
    /\ "cutoff" \in last.paths

(***************************************************************************)
(* Games on the full board in which the human, as Black, follows one of    *)
(* the lines of an opening book and the AI replies as White.               *)
(***************************************************************************)
BoardSize == 15

\* the cells the human chooses from for the first, second, ... Black stone
Opening ==
    <<{<<7, 8>>, <<9, 8>>}, {<<6, 7>>, <<5, 8>>}, {<<6, 8>>, <<7, 6>>}, {<<6, 9>>, <<8, 7>>}>>

BlackStones == Cardinality({x \in Cells : board[x[1]][x[2]] = 1})

HumanMoves == IF BlackStones < Len(Opening) THEN Opening[BlackStones + 1] ELSE {}

ScenarioInit ==
    \E order \in SetOrders : Constructed(BoardSize, BoardSize, TRUE, 2, 2, 8, order)

ScenarioNext ==
    \/ \E x \in HumanMoves : _on_cell_click(x[1], x[2])
    \/ AiTimer

ScenarioSpec == ScenarioInit /\ [][ScenarioNext]_vars

\* n consecutive cells from (r, c) along d hold stones of colour p
RunFrom(b, r, c, d, p, n) ==
    \A k \in 0 .. n - 1 : /\ InRange(r + k * d[1], c + k * d[2])
                          /\ b[r + k * d[1]][c + k * d[2]] = p

HasRun(b, p, n) == \E x \in Cells : \E d \in Axes : RunFrom(b, x[1], x[2], d, p, n)

\* the cells next to the two ends of the open threes of Black: three Black stones in a
\* line, from x along d, with the cell before and the cell after them in range and empty
Extensions(b) ==
    UNION {{<<x[1] - d[1], x[2] - d[2]>>, <<x[1] + 3 * d[1], x[2] + 3 * d[2]>>} :
             <<x, d>> \in {xd \in Cells \X Axes :
                 LET x == xd[1]
                     d == xd[2]
                 IN  /\ RunFrom(b, x[1], x[2], d, 1, 3)
                     /\ InRange(x[1] - d[1], x[2] - d[2])
                     /\ b[x[1] - d[1]][x[2] - d[2]] = 0
                     /\ InRange(x[1] + 3 * d[1], x[2] + 3 * d[2])
                     /\ b[x[1] + 3 * d[1]][x[2] + 3 * d[2]] = 0}}

\* the board the AI callback found, when it placed a stone
BoardBefore == Without(board, last.placed)

CallScore(player, r, c) ==
    /\ last' = [op |-> "_score_if_place", player |-> player, r |-> r, c |-> c,
                score |-> _score_if_place(board, player, r, c)]
    /\ UNCHANGED <<board, current_player, game_over, win_line, pending, cursor_r, cursor_c>>
    /\ UNCHANGED config
    /\ UNCHANGED hover

\* three or four Black stones in row 7, from any column
ShapeInit ==
    /\ Configured(BoardSize, BoardSize, TRUE, 2, 2, 8, "ascending")
    /\ \E n \in 3 .. 4 : \E k \in 0 .. BoardSize - n :
           board = LineBoard(<<7, k>>, <<0, 1>>, n, 1, n)

\* one call on the prepared board
ScoreOnce(player, r, c) == last = Idle /\ CallScore(player, r, c)

PlaceOnce(r, c) == last = Idle /\ CallPlace(r, c)

ShapeNext ==
    \/ \E player \in {1, 2} : \E x \in Cells : ScoreOnce(player, x[1], x[2])
    \/ \E x \in Cells : PlaceOnce(x[1], x[2])

ShapeSpec == ShapeInit /\ [][ShapeNext]_vars

\* the two cells next to the ends of the runs of exactly n stones of colour p that have
\* both of these cells in range and empty
OpenEnds(b, p, n) ==
    UNION {{<<x[1] - d[1], x[2] - d[2]>>, <<x[1] + n * d[1], x[2] + n * d[2]>>} :
             <<x, d>> \in {xd \in Cells \X Axes :
                 /\ RunFrom(b, xd[1][1], xd[1][2], xd[2], p, n)
                 /\ InRange(xd[1][1] - xd[2][1], xd[1][2] - xd[2][2])
                 /\ b[xd[1][1] - xd[2][1]][xd[1][2] - xd[2][2]] = 0
                 /\ InRange(xd[1][1] + n * xd[2][1], xd[1][2] + n * xd[2][2])
                 /\ b[xd[1][1] + n * xd[2][1]][xd[1][2] + n * xd[2][2]] = 0}}

\* the scores of the table's row count = 4, open ends = 2: one direction adds 2e6, the
\* other three and the centre bias make it at least 2e6 and at most 8e6 (in halves)
InOpenFourTier(score) ==
    NLeq(NumOfInt(2 * 2000000), score) /\ NLeq(score, NumOfInt(2 * 4 * 2000000))

\* a call of _score_if_place for Black on a cell next to an open run of n Black stones
ScoredAtOpenEnd(n) ==
    /\ last.op = "_score_if_place"
    /\ last.player = 1
    /\ <<last.r, last.c>> \in OpenEnds(board, 1, n)

\* a Black placement on a cell next to an open run of n Black stones
PlacedAtOpenEnd(n) ==
    /\ last.op = "_place_current"
    /\ last.before.current_player = 1
    /\ <<last.r, last.c>> \in OpenEnds(last.before.board, 1, n)

\* C11 as stated: next to four Black stones with both ends open, _score_if_place for Black
\* is in the tier of the open four, and placing Black there wins.
C11_OpenFourTier ==
    /\ ScoredAtOpenEnd(4) => InOpenFourTier(last.score)
    /\ PlacedAtOpenEnd(4) => game_over /\ Len(win_line) = 5

\* C11: there the count is 5, so the score is the win constant 1e9, which is above every
\* score of the tier of the open four; placing Black there wins.
C11_WinConstant ==
    /\ ScoredAtOpenEnd(4) => /\ last.score = WinPlaceScore
                             /\ ~InOpenFourTier(last.score)
                             /\ NLess(NumOfInt(2 * 4 * 2000000), last.score)
    /\ PlacedAtOpenEnd(4) => game_over /\ Len(win_line) = 5

C11_ScoredNextToFour ==
    ScoredAtOpenEnd(4) /\ board[7][4] = 1 /\ board[7][7] = 1 /\ <<last.r, last.c>> = <<7, 8>>

(***************************************************************************)
(* Direct calls of _ai_generate_candidates on the full board with a single *)
(* Black stone, for the AI as White and several branch limits.             *)
(***************************************************************************)
\* values of ai_branch_limit: below 1, the constructor's 8, and the 24 cells of a
\* neighbourhood and more
BranchLimits == {-1, 0, 1, 8, 24, 25}

NeighbourInit ==
    /\ \E limit \in BranchLimits : \E order \in SetOrders :
           Configured(BoardSize, BoardSize, TRUE, 2, 2, limit, order)
    /\ \E x \in Cells : board = LineBoard(x, <<0, 1>>, 1, 1, 1)

NeighbourNext == CallGenerate

NeighbourSpec == NeighbourInit /\ [][NeighbourNext]_vars

\* the empty cells of b within Chebyshev distance 2 of some stone of b
WithinTwo(b) ==
    {x \in Cells :
        /\ b[x[1]][x[2]] = 0
        /\ \E y \in Cells : /\ b[y[1]][y[2]] # 0
                            /\ Abs(x[1] - y[1]) <= 2
                            /\ Abs(x[2] - y[2]) <= 2}

\* the set of the cells of a list
Range(seq) == {seq[i] : i \in 1 .. Len(seq)}

\* C12 as stated: with one Black stone on the board, the list generated for White holds all
\* the empty cells within Chebyshev distance 2 of the stone, and not the stone's cell.
C12_AllCellsWithinTwo ==
    last.op = "_ai_generate_candidates"
    => /\ WithinTwo(board) \subseteq Range(last.cand)
       /\ \A x \in Range(last.cand) : board[x[1]][x[2]] = 0

\* C12: the list holds only empty cells within Chebyshev distance 2 of the stone, each
\* once, and max(1, ai_branch_limit) of them when there are that many: 8 of the 24 with
\* the constructor's limit, all of them from a limit of 24 on.
C12_CutToBranchLimit ==
    last.op = "_ai_generate_candidates"
    => /\ Range(last.cand) \subseteq WithinTwo(board)
       /\ Cardinality(Range(last.cand)) = Len(last.cand)
       /\ Len(last.cand) = IF Cardinality(WithinTwo(board)) < Max(1, ai_branch_limit)
                           THEN Cardinality(WithinTwo(board))
                           ELSE Max(1, ai_branch_limit)

C12_EightOfTwentyFour ==
    /\ last.op = "_ai_generate_candidates"
    /\ board[7][7] = 1
    /\ Cardinality(WithinTwo(board)) = 24
    /\ ai_branch_limit = 8
    /\ Len(last.cand) = 8

(***************************************************************************)
(* Games on a square that fills up, in which the human, as Black, follows  *)
(* lines that avoid five in a row and the AI replies as White.             *)
(***************************************************************************)
DrawDim == 5

\* the cells the human chooses from for the first, second, ... Black stone
DrawBook ==
    <<{<<0, 4>>, <<4, 1>>}, {<<1, 1>>}, {<<4, 0>>, <<4, 4>>}, {<<4, 3>>, <<4, 0>>},
      {<<4, 4>>, <<3, 3>>}, {<<0, 0>>, <<1, 0>>}, {<<4, 1>>}, {<<2, 0>>}, {<<2, 4>>},
      {<<0, 2>>}, {<<0, 1>>}, {<<3, 3>>}, {<<3, 1>>}>>

DrawMoves == IF BlackStones < Len(DrawBook) THEN DrawBook[BlackStones + 1] ELSE {}

DrawInit ==
    \E order \in SetOrders : Constructed(DrawDim, DrawDim, TRUE, 2, 2, 8, order)

DrawNext ==
    \/ \E x \in DrawMoves : _on_cell_click(x[1], x[2])
    \/ AiTimer

DrawSpec == DrawInit /\ [][DrawNext]_vars

\* C13: once the board is full without five in a row, the game is over, no callback of
\* the AI is pending and no win line is recorded.
C13_DrawWithoutWinLine ==
    (BoardFull(board) /\ ~HasFive(board))
    => game_over /\ pending = 0 /\ win_line = <<>>

(***************************************************************************)
(* Properties of new_game, in the game of Spec.                            *)
(***************************************************************************)
\* C14: whatever the state (ongoing, won, drawn, an AI callback pending), new_game leaves
\* every cell empty, Black to move, _game_over False and the win line empty, and does not
\* change ai_enabled, ai_player, ai_depth and ai_branch_limit.
C14_NewGameResets ==
    [][new_game => /\ \A x \in Cells : board'[x[1]][x[2]] = 0
                   /\ current_player' = 1
                   /\ game_over' = FALSE
                   /\ win_line' = <<>>
                   /\ UNCHANGED <<ai_enabled, ai_player, ai_depth, ai_branch_limit>>]_vars

\* a new game begun while a callback of the AI was pending
C14_ResetWithReplyPending ==
    /\ pending > 0
    /\ \A x \in Cells : board[x[1]][x[2]] = 0
    /\ current_player = 1 /\ ~game_over /\ win_line = <<>>

(***************************************************************************)
(* The first exchange of a game on a small square, for configured depths   *)
(* and branch limits inside and outside their usual ranges.                *)
(***************************************************************************)
ConfigDim == 4

\* values of ai_depth: negative, zero, the constructor's 2, and above 3
Depths == {-1, 0, 1, 2, 3, 4}

\* values of ai_branch_limit: below 1, the constructor's 8, and above 8
Limits == {0, 8, 9}

ConfigInit ==
    \E depth \in Depths : \E limit \in Limits :
        Constructed(ConfigDim, ConfigDim, TRUE, 2, depth, limit, "ascending")

\* Black's first stone: a corner, an edge cell and two inner cells
FirstClicks == {<<0, 0>>, <<0, 1>>, <<1, 1>>, <<2, 1>>}

ConfigNext ==
    \/ \E x \in FirstClicks : BlackStones = 0 /\ _on_cell_click(x[1], x[2])
    \/ AiTimer

ConfigSpec == ConfigInit /\ [][ConfigNext]_vars

\* a step in which a callback runs _ai_move with the AI to move
AiTurn == AiToMove /\ pending > 0 /\ pending' = pending - 1

\* C15: whatever ai_depth and the length of the candidate list, the depth _ai_move gives
\* the root search is at least 1 and at most 3, and the turn ends with one stone of the
\* AI added on a cell that was empty.
C15_DepthClamped ==
    [][AiTurn => /\ SearchDepth(_ai_generate_candidates(board)) \in 1 .. 3
                 /\ \E x \in Cells : /\ NewStones(board, board') = {x}
                                     /\ board'[x[1]][x[2]] = ai_player]_vars

(***************************************************************************)
(* Hover and drag (mixins.py).  The window hides when the pointer leaves   *)
(* it and shows again, after a delay, when the pointer comes back or stays *)
(* near its edge.  _animate_opacity and the two hooks are not defined by   *)
(* the game windows, so the opacity is set at once and the hooks do        *)
(* nothing.  The polling timer is started by init_hover and never stopped. *)
(***************************************************************************)
\* the game state, which the hover and drag handlers leave alone
game == <<board, current_player, game_over, win_line, pending, cursor_r, cursor_c>>

\* HoverConfig.hidden_opacity(), in percent
HiddenOpacity == 6

\* the interval of the polling timer, in ms
HoverPollMs == 160

\* values HoverConfig.delay_ms() returns: the least, a short one and the default
DelaySettings == {0, 320, 1500}

\* _hover_show(): start the delay timer unless it is running
_hover_show == hover_delay_active' = TRUE

\* _hover_show_now()
_hover_show_now ==
    /\ opacity' = 100
    /\ hover_hidden' = FALSE

\* _hover_hide()
_hover_hide ==
    /\ hover_delay_active' = FALSE
    /\ opacity' = HiddenOpacity
    /\ hover_hidden' = TRUE

\* hover_enter(event)
hover_enter ==
    IF hover_hidden
    THEN /\ \E ms \in DelaySettings : hover_delay_ms' = ms
         /\ _hover_show
    ELSE UNCHANGED <<hover_delay_ms, hover_delay_active>>

\* the variant of hover_leave that hides during a drag as well
hover_leave_during_drag == _hover_hide

\* hover_leave(event)
hover_leave ==
    IF ~dragging THEN _hover_hide
    ELSE UNCHANGED <<hover_delay_active, opacity, hover_hidden>>

\* enterEvent: the pointer comes into the window
enterEvent ==
    /\ mouse # "inside"
    /\ mouse' = "inside"
    /\ hover_enter
    /\ last' = [op |-> "enterEvent"]
    /\ UNCHANGED <<hover_hidden, opacity, edge_near_ticks, dragging>>
    /\ UNCHANGED game
    /\ UNCHANGED config

\* leaveEvent: the pointer goes out of the window
leaveEvent ==
    /\ mouse = "inside"
    /\ mouse' \in {"near", "away"}
    /\ hover_leave
    /\ last' = [op |-> "leaveEvent", dragging |-> dragging]
    /\ UNCHANGED <<hover_delay_ms, edge_near_ticks, dragging>>
    /\ UNCHANGED game
    /\ UNCHANGED config

\* the pointer moves outside the window
PointerMoves ==
    /\ mouse \in {"near", "away"}
    /\ mouse' \in {"near", "away"} \ {mouse}
    /\ last' = Idle
    /\ UNCHANGED <<hover_hidden, hover_delay_active, hover_delay_ms, edge_near_ticks,
                   dragging, opacity>>
    /\ UNCHANGED game
    /\ UNCHANGED config

\* the hidden branch of _on_hover_timer: count the ticks near the edge
PollHidden ==
    /\ IF mouse \in {"inside", "near"}
       THEN IF edge_near_ticks + 1 >= hover_delay_ms \div HoverPollMs
            THEN _hover_show /\ edge_near_ticks' = 0
            ELSE edge_near_ticks' = edge_near_ticks + 1 /\ UNCHANGED hover_delay_active
       ELSE edge_near_ticks' = 0 /\ UNCHANGED hover_delay_active
    /\ UNCHANGED <<hover_hidden, opacity>>

\* the shown branch of _on_hover_timer: hide once the pointer is outside
PollShown ==
    /\ IF ~dragging /\ mouse # "inside" THEN _hover_hide
       ELSE UNCHANGED <<hover_delay_active, opacity, hover_hidden>>
    /\ UNCHANGED edge_near_ticks

\* _on_hover_timer(): a tick of the polling timer
_on_hover_timer ==
    /\ IF hover_hidden THEN PollHidden ELSE PollShown
    /\ last' = [op |-> "_on_hover_timer"]
    /\ UNCHANGED <<hover_delay_ms, dragging, mouse>>
    /\ UNCHANGED game
    /\ UNCHANGED config

\* the delay timer runs out and calls _hover_show_now
DelayTimeout ==
    /\ hover_delay_active
    /\ hover_delay_active' = FALSE
    /\ _hover_show_now
    /\ last' = [op |-> "_hover_show_now", by |-> "timer"]
    /\ UNCHANGED <<hover_delay_ms, edge_near_ticks, dragging, mouse>>
    /\ UNCHANGED game
    /\ UNCHANGED config

\* _hover_show_now() called directly, as scripts/gomoku_smoke.py does
CallHoverShowNow ==
    /\ _hover_show_now
    /\ last' = [op |-> "_hover_show_now", by |-> "call"]
    /\ UNCHANGED <<hover_delay_active, hover_delay_ms, edge_near_ticks, dragging, mouse>>
    /\ UNCHANGED game
    /\ UNCHANGED config

\* _hover_hide() called directly, as scripts/gomoku_smoke.py does
CallHoverHide ==
    /\ _hover_hide
    /\ last' = [op |-> "_hover_hide"]
    /\ UNCHANGED <<hover_delay_ms, edge_near_ticks, dragging, mouse>>
    /\ UNCHANGED game
    /\ UNCHANGED config

\* mousePressEvent with the left button beside the board: _drag_handle_press starts a
\* system move if the platform offers one, and a manual drag otherwise
mousePressEvent(system_move) ==
    /\ mouse = "inside"
    /\ dragging' = (IF system_move THEN dragging ELSE TRUE)
    /\ last' = Idle
    /\ UNCHANGED <<hover_hidden, hover_delay_active, hover_delay_ms, edge_near_ticks,
                   opacity, mouse>>
    /\ UNCHANGED game
    /\ UNCHANGED config

\* mouseReleaseEvent with the left button
mouseReleaseEvent ==
    /\ dragging' = FALSE
    /\ last' = Idle
    /\ UNCHANGED <<hover_hidden, hover_delay_active, hover_delay_ms, edge_near_ticks,
                   opacity, mouse>>
    /\ UNCHANGED game
    /\ UNCHANGED config

HoverInit == Constructed(BoardSize, BoardSize, TRUE, 2, 2, 8, "ascending")

HoverNext ==
    \/ enterEvent
    \/ leaveEvent
    \/ PointerMoves
    \/ _on_hover_timer
    \/ DelayTimeout
    \/ CallHoverShowNow
    \/ CallHoverHide
    \/ \E system_move \in BOOLEAN : mousePressEvent(system_move)
    \/ mouseReleaseEvent

HoverSpec == HoverInit /\ [][HoverNext]_vars

\* C16: a step that runs _hover_hide (called directly, or by a leave event outside a drag)
\* leaves the window hidden with the delay timer stopped; a step that runs _hover_show_now
\* leaves it shown; a leave event during a drag leaves it as it was, hidden or shown.
C16_HoverStates ==
    [][/\ (last'.op = "_hover_hide" \/ (last'.op = "leaveEvent" /\ ~dragging))
          => hover_hidden' /\ ~hover_delay_active'
       /\ last'.op = "_hover_show_now" => ~hover_hidden'
       /\ (last'.op = "leaveEvent" /\ dragging) => hover_hidden' = hover_hidden]_vars

\* the pointer has left the window during a drag and the window is shown
C16_LeftWhileDragging ==
    last.op = "leaveEvent" /\ last.dragging /\ dragging /\ ~hover_hidden /\ mouse # "inside"

(***************************************************************************)
(* Ranking of the candidates at the nodes of the search.  _alpha_beta      *)
(* calls _ai_generate_candidates() at every node, whichever side is to     *)
(* move there, so the list CallGenerate records on a board is the list of  *)
(* the nodes on that board for to_move = 1 and for to_move = 2.            *)
(***************************************************************************)
\* 1.2 * score for the side to move + 1.0 * score for the other side, in 1/20
MoverKey(b, mover, x) ==
    NAdd(NMul(_score_if_place(b, mover, x[1], x[2]), 12),
         NMul(_score_if_place(b, Other(mover), x[1], x[2]), 10))

\* list holds the cells of pool of greatest key for mover, at most limit of them, in
\* descending order of that key
RankedBy(list, b, mover, pool, limit) ==
    /\ Range(list) \subseteq pool
    /\ Len(list) = (IF Cardinality(pool) < limit THEN Cardinality(pool) ELSE limit)
    /\ \A i \in 1 .. Len(list) : \A j \in 1 .. Len(list) :
           i < j => NLeq(MoverKey(b, mover, list[j]), MoverKey(b, mover, list[i]))
    /\ \A x \in pool \ Range(list) : \A i \in 1 .. Len(list) :
           NLeq(MoverKey(b, mover, x), MoverKey(b, mover, list[i]))

\* C17 as stated: on a board with stones, the list of a node is ranked by the key of the
\* side to move at the node, whichever side that is, and cut to max(1, ai_branch_limit).
C17_RankedForSideToMove ==
    (last.op = "_ai_generate_candidates" /\ board # EmptyBoard)
    => \A to_move \in {1, 2} :
           RankedBy(last.cand, board, to_move, WithinTwo(board), Max(1, ai_branch_limit))

(***************************************************************************)
(* Searches of increasing depth from a position in which the side to move  *)
(* completes five with one stone.                                          *)
(***************************************************************************)
\* the greatest depth searched: the cap of _ai_move
DeepestSearch == 3

\* four stones of one colour in a row of the reduced board, from its first or its second
\* cell, the fifth cell of the row empty
FourBoards ==
    {LineBoard(<<r, c>>, <<0, 1>>, 4, p, 4) :
        r \in 0 .. SearchDim - 1, c \in {0, 1}, p \in {1, 2}}

FourInit ==
    /\ Configured(SearchDim, SearchDim, TRUE, 2, 2, 8, "ascending")
    /\ board \in FourBoards

\* the colour of the stones on the board
Owner == IF \E x \in Cells : board[x[1]][x[2]] = 1 THEN 1 ELSE 2

\* the depth and score of the search before this one, if there was one
Earlier ==
    IF last.op = "_alpha_beta" THEN [depth |-> last.depth, score |-> last.score] ELSE None

\* the window after _alpha_beta(depth, to_move, -1e18, 1e18) returned res
SearchedDeeper(depth, to_move, res) ==
    /\ board' = res.board
    /\ win_line' = res.win_line
    /\ last' = [op |-> "_alpha_beta", depth |-> depth, to_move |-> to_move,
                score |-> res.score, move |-> res.move, earlier |-> Earlier]

\* _alpha_beta called for the owner of the four, deeper than the call before
CallDeeper(depth) ==
    /\ last.op = "_alpha_beta" => depth > last.depth
    /\ SearchedDeeper(depth, Owner, _alpha_beta(board, win_line, depth, Owner, NNeg(Inf), Inf))
    /\ UNCHANGED <<current_player, game_over, pending, cursor_r, cursor_c>>
    /\ UNCHANGED config
    /\ UNCHANGED hover

FourNext == \E depth \in 1 .. DeepestSearch : CallDeeper(depth)

FourSpec == FourInit /\ [][FourNext]_vars

\* C18: of two searches of the same position, the one with more depth left when it finds
\* the win of the AI scores strictly higher, and the one with more depth left when it finds
\* the win of the opponent scores strictly lower; the move returned completes five.
C18_FasterWinScoresHigher ==
    last.op = "_alpha_beta"
    => /\ last.move # None
       /\ HasFive(Put(board, last.move[1], last.move[2], last.to_move))
       /\ last.earlier # None
          => IF last.to_move = ai_player
             THEN NLess(last.earlier.score, last.score)
             ELSE NLess(last.score, last.earlier.score)

\* a win of the AI found with depth 3 after it was found with depth 1
C18_WinFoundAtTwoDepths ==
    /\ last.op = "_alpha_beta"
    /\ last.earlier # None
    /\ last.depth = 3
    /\ last.earlier.depth = 1
    /\ last.to_move = ai_player

(***************************************************************************)
(* Direct calls of _check_win_at on boards that hold two lines of stones   *)
(* of one colour along different axes.                                     *)
(***************************************************************************)
\* the lines of five or six cells that fit the board: origin, axis, length
FullLines ==
    {l \in Cells \X Axes \X (5 .. 6) :
        InRange(l[1][1] + (l[3] - 1) * l[2][1], l[1][2] + (l[3] - 1) * l[2][2])}

CrossInit ==
    /\ Configured(WinDim, WinDim, TRUE, 2, 2, 8, "ascending")
    /\ \E l1 \in FullLines : \E l2 \in FullLines : \E p \in {1, 2} :
           /\ l1[2] # l2[2]
           /\ board = Overlay(LineBoard(l1[1], l1[2], l1[3], p, l1[3]),
                              LineBoard(l2[1], l2[2], l2[3], p, l2[3]))

\* one call on the board
CheckWinOnce(r, c) == last = Idle /\ CallCheckWin(r, c)

CrossNext == \E r \in 0 .. rows - 1 : \E c \in 0 .. cols - 1 : CheckWinOnce(r, c)

CrossSpec == CrossInit /\ [][CrossNext]_vars

\* the cells of the run of the colour at (r, c) through (r, c) along d
RunCells(b, r, c, d) ==
    {x \in Cells :
        \E k \in -(WinDim - 1) .. (WinDim - 1) :
            /\ x = <<r + k * d[1], c + k * d[2]>>
            /\ \A j \in -(WinDim - 1) .. (WinDim - 1) :
                   ((0 <= j /\ j <= k) \/ (k <= j /\ j <= 0))
                   => /\ InRange(r + j * d[1], c + j * d[2])
                      /\ b[r + j * d[1]][c + j * d[2]] = b[r][c]}

Qualifies(b, r, c, d) == Cardinality(RunCells(b, r, c, d)) >= 5

\* the win line recorded by the last call is the run of the first axis of order that
\* qualifies
RecordedFirstIn(order) ==
    (last.op = "_check_win_at" /\ last.res)
    => \E i \in 1 .. Len(order) :
           /\ Qualifies(board, last.r, last.c, order[i])
           /\ \A j \in 1 .. i - 1 : ~Qualifies(board, last.r, last.c, order[j])
           /\ Range(win_line) = RunCells(board, last.r, last.c, order[i])
           /\ Len(win_line) = Cardinality(RunCells(board, last.r, last.c, order[i]))

\* C19 as stated: the recorded win line is the run of the first qualifying axis in the
\* order horizontal, vertical, diagonal-\, diagonal-/.
C19_HorizontalFirst == RecordedFirstIn(<<<<0, 1>>, <<1, 0>>, <<1, 1>>, <<1, -1>>>>)

\* C19: the recorded win line is the run of the first qualifying axis in the order
\* vertical, horizontal, diagonal-\, diagonal-/, whether or not a later axis has a
\* longer run.
C19_VerticalFirst == RecordedFirstIn(<<<<1, 0>>, <<0, 1>>, <<1, 1>>, <<1, -1>>>>)

\* a call on the crossing of a column of five and a row of six: the column is recorded
C19_ColumnOfFiveOverRowOfSix ==
    /\ last.op = "_check_win_at"
    /\ last.res
    /\ Cardinality(RunCells(board, last.r, last.c, <<1, 0>>)) = 5
    /\ Cardinality(RunCells(board, last.r, last.c, <<0, 1>>)) = 6
    /\ Len(win_line) = 5

(***************************************************************************)
(* Direct calls of _check_win_at with any pair of indices Python accepts   *)
(* or rejects, on the boards of WinSpec.                                   *)
(***************************************************************************)
WrapNext ==
    \E r \in -(rows + 1) .. rows : \E c \in -(cols + 1) .. cols : CheckWinOnce(r, c)

WrapSpec == WinInit /\ [][WrapNext]_vars

\* line runs along one axis through (r, c) over stones of the colour at (r, c)
WellFormedLine(line, b, r, c) ==
    /\ Len(line) >= 5
    /\ \A i \in 1 .. Len(line) : InRange(line[i][1], line[i][2])
    /\ \A i \in 1 .. Len(line) : \A j \in 1 .. Len(line) : line[i] = line[j] => i = j
    /\ \E i \in 1 .. Len(line) : line[i] = <<r, c>>
    /\ \A i \in 1 .. Len(line) : b[line[i][1]][line[i][2]] = Get(b, r, c)
    /\ \E d \in Axes : \A i \in 1 .. Len(line) - 1 :
           line[i + 1] = <<line[i][1] + d[1], line[i][2] + d[2]>>

\* after a call of _check_win_at(r, c) with (r, c) among the cells of E
LineGeometryOn(E) ==
    (last'.op = "_check_win_at" /\ <<last'.r, last'.c>> \in E)
    => IF last'.res
       THEN WellFormedLine(win_line', board, last'.r, last'.c)
       ELSE win_line' = win_line

\* C20: after a call of _check_win_at(r, c) that returns True the recorded win line has at
\* least five distinct in-range cells, (r, c) among them, all of the colour at (r, c), each
\* one step of the same direction after the one before it; after a call that returns False
\* the recorded win line is the one recorded before the call.
C20_WinLineGeometry ==
    [][LineGeometryOn((-(rows + 1) .. rows) \X (-(cols + 1) .. cols))]_vars

\* the same for the calls with 0 <= r < rows and 0 <= c < cols
WinLineGeometryInRange == [][LineGeometryOn(Cells)]_vars

(***************************************************************************)
(* The depth of the root search when the candidate list is short, over     *)
(* the AI turns of ConfigSpec.                                             *)
(***************************************************************************)
\* a step in which _ai_move searches a list of at most 8 candidates
ShortListTurn ==
    /\ AiTurn
    /\ _ai_generate_candidates(board) # <<>>
    /\ Len(_ai_generate_candidates(board)) <= 8

\* C21 as stated: with the configured depth 2 and at most 8 candidates the root search is
\* given a depth above 2 and at most 3.
C21_DepthRaised ==
    [][(ShortListTurn /\ ai_depth = 2)
       => /\ SearchDepth(_ai_generate_candidates(board)) > 2
          /\ SearchDepth(_ai_generate_candidates(board)) <= 3]_vars

\* C21: with at most 8 candidates the root search is given the configured depth brought
\* into 2 .. 3: a depth below 2 becomes 2, a depth above 3 becomes 3, and the configured
\* depth 2 stays 2.
C21_DepthBroughtIntoRange ==
    [][ShortListTurn
       => /\ SearchDepth(_ai_generate_candidates(board))
                = (IF ai_depth < 2 THEN 2 ELSE IF ai_depth > 3 THEN 3 ELSE ai_depth)
          /\ ai_depth = 2 => SearchDepth(_ai_generate_candidates(board)) = 2]_vars

\* the AI has answered the first stone with the configured depth 2 and branch limit 8
C21_RepliedAtDefaults ==
    /\ last.op = "_ai_move"
    /\ last.placed # {}
    /\ ai_depth = 2
    /\ ai_branch_limit = 8
    /\ BlackStones = 1

(***************************************************************************)
(* Direct calls of _score_if_place, one after another, on boards with two  *)
(* rows that each hold a run of Black stones, an empty cell after it and   *)
(* White stones or empty cells at the two ends.                            *)
(***************************************************************************)
\* row r: column 0 White if lb, Black on columns 1 .. n, column n + 1 empty, column n + 2
\* White if rb
RowPattern(r, n, lb, rb) ==
    [x \in 0 .. rows - 1 |-> [y \in 0 .. cols - 1 |->
        IF x # r THEN 0
        ELSE IF y = 0 THEN (IF lb THEN 2 ELSE 0)
        ELSE IF y <= n THEN 1
        ELSE IF y = n + 2 THEN (IF rb THEN 2 ELSE 0)
        ELSE 0]]

TierInit ==
    /\ Configured(WinDim, WinDim, TRUE, 2, 2, 8, "ascending")
    /\ \E n1 \in 0 .. 3 : \E n2 \in 0 .. 3 : \E f \in [1 .. 4 -> BOOLEAN] :
           board = Overlay(RowPattern(0, n1, f[1], f[2]), RowPattern(3, n2, f[3], f[4]))

\* (count, open_ends) of the four directions, in the order of dirs
DirShapes(b, player, r, c) == [i \in 1 .. 4 |-> DirShape(b, player, r, c, dirs[i])]

\* what the loop adds to total for each direction
DirAdded(b, player, r, c) ==
    [i \in 1 .. 4 |-> DirScore(DirShapes(b, player, r, c)[i].count,
                               DirShapes(b, player, r, c)[i].open_ends)]

\* _score_if_place(player, r, c) called on an empty cell of the window's board
CallScoreParts(player, r, c) ==
    /\ board[r][c] = 0
    /\ last' = [op |-> "_score_if_place", player |-> player, r |-> r, c |-> c,
                score |-> _score_if_place(board, player, r, c),
                shapes |-> DirShapes(board, player, r, c),
                added |-> DirAdded(board, player, r, c)]
    /\ UNCHANGED <<board, current_player, game_over, win_line, pending, cursor_r, cursor_c>>
    /\ UNCHANGED config
    /\ UNCHANGED hover

TierSpec ==
    TierInit /\ [][\E player \in {1, 2} : \E x \in Cells : CallScoreParts(player, x[1], x[2])]_vars

\* direction i of the call before and direction j of this call: counts from 1 to 4
Compared(i, j) ==
    /\ last.op = "_score_if_place"
    /\ last'.op = "_score_if_place"
    /\ last.shapes[i].count \in 1 .. 4
    /\ last'.shapes[j].count \in 1 .. 4

\* this call's direction j has the count of the other call's direction i and open ends k
\* against l
SameCount(i, j, k, l) ==
    /\ Compared(i, j)
    /\ last'.shapes[j].count = last.shapes[i].count
    /\ last'.shapes[j].open_ends = k
    /\ last.shapes[i].open_ends = l

\* for a fixed number of open ends a larger count adds strictly more
MoreForLargerCount(i, j) ==
    (/\ Compared(i, j)
     /\ last'.shapes[j].open_ends = last.shapes[i].open_ends
     /\ last'.shapes[j].count > last.shapes[i].count)
    => last'.added[j] > last.added[i]

\* C22 as stated: for a fixed count two open ends add strictly more than one, for counts 3
\* and 2 one open end adds strictly more than none, and for a fixed number of open ends a
\* larger count adds strictly more.
C22_TiersStrictlyOrdered ==
    [][\A i \in 1 .. 4 : \A j \in 1 .. 4 :
           /\ SameCount(i, j, 2, 1) => last'.added[j] > last.added[i]
           /\ (SameCount(i, j, 1, 0) /\ last.shapes[i].count \in {2, 3})
              => last'.added[j] > last.added[i]
           /\ MoreForLargerCount(i, j)]_vars

\* C22: for counts 4, 3 and 2 two open ends add strictly more than one, and one open end
\* adds the same as none; for count 1 two open ends add the same as one, and one adds
\* strictly more than none; for a fixed number of open ends a larger count adds strictly
\* more.
C22_TiersOrdered ==
    [][\A i \in 1 .. 4 : \A j \in 1 .. 4 :
           /\ SameCount(i, j, 2, 1)
              => IF last.shapes[i].count = 1
                 THEN last'.added[j] = last.added[i]
                 ELSE last'.added[j] > last.added[i]
           /\ SameCount(i, j, 1, 0)
              => IF last.shapes[i].count = 1
                 THEN last'.added[j] > last.added[i]
                 ELSE last'.added[j] = last.added[i]
           /\ MoreForLargerCount(i, j)]_vars

\* a call whose horizontal direction has count 3 and no open end, scored 6e3 like a count
\* of 3 with one open end
C22_ClosedThree ==
    /\ last.op = "_score_if_place"
    /\ last.shapes[2].count = 3
    /\ last.shapes[2].open_ends = 0
    /\ last.added[2] = 6000

(***************************************************************************)
(* Direct calls of _evaluate_board for either side on the positions of     *)
(* SearchSpec.                                                             *)
(***************************************************************************)
\* _evaluate_board(player) called on the state of the window
CallEvaluate(player) ==
    /\ last' = [op |-> "_evaluate_board", player |-> player,
                score |-> _evaluate_board(board, player)]
    /\ UNCHANGED <<board, current_player, game_over, win_line, pending, cursor_r, cursor_c>>
    /\ UNCHANGED config
    /\ UNCHANGED hover

EvalSpec == SearchInit /\ [][\E player \in {1, 2} : CallEvaluate(player)]_vars

RECURSIVE SumOver(_, _)
\* the sum of the scores with their index in S
SumOver(scores, S) ==
    IF S = {} THEN NZero
    ELSE NAdd(scores[CHOOSE i \in S : TRUE],
              SumOver(scores, S \ {CHOOSE i \in S : TRUE}))

\* the sums of k of the scores, or of all of them when there are fewer than k
SumsOf(scores, k) ==
    {SumOver(scores, S) :
        S \in {T \in SUBSET (1 .. Len(scores)) :
                 Cardinality(T) = (IF Len(scores) < k THEN Len(scores) ELSE k)}}

\* the greatest of a set of numbers
Greatest(sums) == CHOOSE v \in sums : \A w \in sums : NLeq(w, v)

\* the sum of the k highest scores
HighestSum(scores, k) == Greatest(SumsOf(scores, k))

\* the scores of player at the cells of list, in halves
ScoresAt(b, player, list) ==
    Tup([i \in 1 .. Len(list) |-> _score_if_place(b, player, list[i][1], list[i][2])])

\* the value of the position for player by the formula, over the candidate list, in 1/40
ValueFor(b, player, list, k) ==
    IF list = <<>> THEN NZero
    ELSE NSub(NMul(HighestSum(ScoresAt(b, player, list), k), 20),
              NMul(HighestSum(ScoresAt(b, Other(player), list), k), 21))

\* C23: _evaluate_board(player) is the sum of the 6 highest scores of player over the
\* candidate list minus 1.05 times the sum of the 6 highest scores of the opponent over
\* the same list, all scores being summed when the list has fewer than 6 cells, and 0 when
\* the list is empty.
C23_TopSixDifference ==
    last.op = "_evaluate_board"
    => last.score = ValueFor(board, last.player, _ai_generate_candidates(board), 6)

\* an evaluation for the opponent of the AI over a list of more than 6 candidates
C23_EvaluatedOverLongList ==
    /\ last.op = "_evaluate_board"
    /\ last.player # ai_player
    /\ Len(_ai_generate_candidates(board)) > 6
    /\ last.score # NZero

(***************************************************************************)
(* The recorded win line between events, over the games of DrawSpec.       *)
(***************************************************************************)
\* C24: between events the recorded win line is non-empty only when the game has ended in
\* a win, and then all its cells hold stones of one colour, the winner's; a search of the
\* AI leaves the recorded win line as it was.
C24_WinLineOnlyAfterWin ==
    win_line # <<>>
    => /\ game_over
       /\ \E p \in {1, 2} : \A i \in 1 .. Len(win_line) :
              board[win_line[i][1]][win_line[i][2]] = p

(***************************************************************************)
(* Direct calls of _ai_move for the AI as Black, to move on a reduced      *)
(* board where Black has three or four in a line and White three or four.  *)
(***************************************************************************)
\* configured depths and branch limits from 1 up, below and above the constructor's
TurnInit ==
    /\ \E depth \in {1, 2, 3} : \E limit \in {1, 8, 9} :
           Configured(SearchDim, SearchDim, TRUE, 1, depth, limit, "ascending")
    /\ \E lb \in {<<<<2, 0>>, <<0, 1>>>>, <<<<2, 1>>, <<0, 1>>>>, <<<<0, 0>>, <<1, 1>>>>} :
       \E lw \in {<<<<3, 0>>, <<0, 1>>>>, <<<<0, 4>>, <<1, 0>>>>} :
       \E n \in 3 .. 4 : \E m \in 3 .. 4 :
           board = Overlay(LineBoard(lb[1], lb[2], n, 1, n), LineBoard(lw[1], lw[2], m, 2, m))

\* _ai_move() called on the state of the window
CallAiMove ==
    /\ last = Idle
    /\ Becomes(_ai_move(Game))
    /\ last' = [op |-> "_ai_move", placed |-> NewStones(board, board'), before |-> board]
    /\ UNCHANGED <<cursor_r, cursor_c>>
    /\ UNCHANGED config
    /\ UNCHANGED hover

TurnSpec == TurnInit /\ [][CallAiMove]_vars

\* the empty cells of b where a stone of p completes five
WinningCells(b, p) ==
    {x \in Cells : /\ b[x[1]][x[2]] = 0
                   /\ \E d \in Axes : FiveThrough(Put(b, x[1], x[2], p), x[1], x[2], d)}

\* C25: when some empty cell completes five for the AI at its turn, the stone the AI
\* plays is on such a cell, and the turn ends the game with five in a row of the AI,
\* whatever the branch limit and the depth from 1 up.
C25_TakesTheWin ==
    (last.op = "_ai_move" /\ WinningCells(last.before, ai_player) # {})
    => /\ last.placed # {}
       /\ last.placed \subseteq WinningCells(last.before, ai_player)
       /\ game_over
       /\ \A i \in 1 .. Len(win_line) : board[win_line[i][1]][win_line[i][2]] = ai_player
       /\ Len(win_line) >= 5

\* the AI took its win with branch limit 1 while the opponent had a winning cell too
C25_WonInsteadOfBlocking ==
    /\ last.op = "_ai_move"
    /\ ai_branch_limit = 1
    /\ WinningCells(last.before, ai_player) # {}
    /\ WinningCells(last.before, Other(ai_player)) # {}
    /\ game_over

(***************************************************************************)
(* The stone of an AI turn, over the AI turns of ConfigSpec.               *)
(***************************************************************************)
\* C26: a turn of the AI in an ongoing game adds one stone of the AI's colour on a cell
\* that was empty, a cell of the candidate list of the position, and changes no other
\* cell, also when the search returns no move and the first candidate is played.
C26_OneStoneFromTheList ==
    [][AiTurn
       => \E x \in Range(_ai_generate_candidates(board)) :
              /\ InRange(x[1], x[2])
              /\ board[x[1]][x[2]] = 0
              /\ board' = Put(board, x[1], x[2], ai_player)]_vars

\* the AI has played the first candidate after a search of depth 0 or less over more than
\* 8 candidates, which returns no move
C26_PlayedFirstCandidate ==
    /\ last.op = "_ai_move"
    /\ ai_depth <= 0
    /\ Len(_ai_generate_candidates(Without(board, last.placed))) > 8
    /\ last.placed = {_ai_generate_candidates(Without(board, last.placed))[1]}

(***************************************************************************)
(* The numbers of stones of the two colours, over the games of Spec.       *)
(***************************************************************************)
\* the number of stones of colour p on b
Stones(b, p) == Cardinality({x \in Cells : b[x[1]][x[2]] = p})

\* Black stones minus White stones
Lead == Stones(board, 1) - Stones(board, 2)

\* C27 as stated: between events Black has as many stones as White or one more, and as
\* many exactly when Black is the side to move in a game that is not over.
C27_EvenExactlyOnBlacksTurn ==
    /\ Lead \in {0, 1}
    /\ Lead = 0 <=> (current_player = 1 /\ ~game_over)

\* C27: between events Black has as many stones as White or one more; in a game that is
\* not over, as many exactly when Black is the side to move; in a game that is over, as
\* many exactly when White placed the last stone, and current_player is still White.
C27_EvenExactlyAfterWhite ==
    /\ Lead \in {0, 1}
    /\ ~game_over => (Lead = 0 <=> current_player = 1)
    /\ game_over => (Lead = 0 <=> current_player = 2)

\* a game that White's stone ended, with as many stones of each colour
C27_EndedByWhite == game_over /\ Lead = 0 /\ current_player = 2 /\ board # EmptyBoard

(***************************************************************************)
(* The finished game and the stones on the board, over the steps of Spec.  *)
(***************************************************************************)
\* the state new_game leaves
FreshGame(b, p, over, wl) == b = EmptyBoard /\ p = 1 /\ ~over /\ wl = <<>>

\* C28: a step from a finished game leaves the board, the side to move, the outcome
\* and the win line as they are, unless it is new_game; and a step that is not new_game
\* leaves every stone where it is, in its colour, and puts on an empty cell nothing but a
\* stone of the side to move.
C28_FinishedGameStays ==
    [][/\ game_over
          => \/ UNCHANGED <<board, current_player, game_over, win_line>>
             \/ FreshGame(board', current_player', game_over', win_line')
       /\ board' # EmptyBoard
          => \A x \in Cells :
                 /\ board[x[1]][x[2]] # 0 => board'[x[1]][x[2]] = board[x[1]][x[2]]
                 /\ board'[x[1]][x[2]] \in {board[x[1]][x[2]], current_player}]_vars

\* a callback of the AI has run in a finished game and placed nothing
C28_CallbackAfterTheEnd ==
    /\ last.op = "_ai_move"
    /\ last.placed = {}
    /\ game_over
    /\ ai_enabled
    /\ current_player = ai_player

(***************************************************************************)
(* The callbacks of the AI among the other events, over the steps of Spec. *)
(***************************************************************************)
\* a step in which a pending callback runs
CallbackRuns == pending > 0 /\ last'.op = "_ai_move"

\* C29: in any order of clicks, Space, R and callbacks, with several callbacks pending,
\* a callback that runs while the game is over or the AI is not to move changes nothing
\* of the game; one that runs on the AI's turn adds one stone of the AI on an empty cell
\* and the AI is not to move after it; and no step adds more than one stone.
C29_OneStonePerTurnInTurn ==
    [][/\ Cardinality(NewStones(board, board')) <= 1
       /\ CallbackRuns /\ ~AiToMove
          => UNCHANGED <<board, current_player, game_over, win_line>>
       /\ CallbackRuns /\ AiToMove
          => /\ StoneAdded
             /\ \A x \in NewStones(board, board') : board'[x[1]][x[2]] = ai_player
             /\ ~AiToMove']_vars

\* a callback scheduled in an earlier game has run on the empty board of the next one
\* with Black, the human, to move, and placed nothing
C29_StaleCallbackOnFreshBoard ==
    /\ last.op = "_ai_move"
    /\ last.placed = {}
    /\ board = EmptyBoard
    /\ ~game_over
    /\ ai_enabled
    /\ ai_player = 2
    /\ current_player = 1

(***************************************************************************)
(* The human's events while it is the AI's turn, over the steps of Spec.   *)
(***************************************************************************)
\* C30: while the AI is enabled and is the side to move, a step that is neither a
\* callback of the AI nor new_game (a click, the Space key, a cursor key) leaves the
\* board and the side to move as they are and schedules nothing.
C30_HumanEventsWaitForTheAi ==
    [][ai_enabled /\ current_player = ai_player /\ last'.op # "_ai_move"
       => \/ UNCHANGED <<board, current_player, game_over, pending>>
          \/ FreshGame(board', current_player', game_over', win_line')]_vars

\* between the human's move and the reply, with the cursor moved to an empty cell, where
\* a click or the Space key would place a stone on the human's turn
C30_WaitingOnAnEmptyCell ==
    /\ AiToMove
    /\ ai_player = 2
    /\ pending > 0
    /\ last = Idle
    /\ board # EmptyBoard
    /\ board[cursor_r][cursor_c] = 0

====
